---- MODULE Spec2Model ----
(***************************************************************************)
(* Model of the pyth account decoders of src/index.ts: parseMappingData,   *)
(* parseProductData, parsePriceData, with parsePriceInfo and PKorNull.     *)
(*                                                                         *)
(* A Buffer is a sequence of bytes; byte k of the source (0-based) is      *)
(* element k+1 of the sequence.  Every decoder is run on one input buffer: *)
(* one action for its straight-line head, one per loop iteration, one for  *)
(* the return.  A decoder ends in pc = "returned" or pc = "threw".         *)
(*                                                                         *)
(* Numbers.  An unsigned 32-bit field is kept as two 16-bit limbs          *)
(* [hi, lo], since Magic = 0xa1b2c3d4 is beyond the integers of the model  *)
(* checker; Num turns a field into an integer where the code computes with *)
(* it.  64-bit mantissas and slots are integers, read byte by byte in two's *)
(* complement; the inputs keep them below 2^31 in magnitude.  A scaled     *)
(* value mantissa * 10^exponent is an exact fraction [num, den] in lowest  *)
(* terms: the rounding of double arithmetic is not modelled.               *)
(***************************************************************************)
EXTENDS Integers, Sequences, FiniteSets, TLC

VARIABLES
    fn,               \* which decoder runs: "mapping", "product", "price"
    data,             \* the input Buffer
    pc,               \* "call", "loop", "returned", "threw"
    offset,           \* the running offset (offset / idx of the source)
    i,                \* the loop counter of parseMappingData
    shouldContinue,   \* the flag of parsePriceData's loop
    rec,              \* the scalar fields decoded so far
    productAccountKeys,
    product,
    priceComponents,
    step              \* what the last loop iteration did

vars == << fn, data, pc, offset, i, shouldContinue, rec,
           productAccountKeys, product, priceComponents, step >>

----------------------------------------------------------------------------
(* Bounds of the inputs *)

MaxProducts == 2      \* product keys in a mapping buffer, and declared count
MaxItems == 2         \* metadata items in a product buffer
MaxBlocks == 2        \* 96-byte component blocks in a price buffer

----------------------------------------------------------------------------
(* JavaScript values *)

\* data[k] past the end of a Buffer
Undefined == 0 - 1
\* idx += undefined
NaN == 0 - 2
\* the value of PKorNull for the empty identifier
Null == << >>

RECURSIVE Zeros(_)
Zeros(n) == IF n <= 0 THEN << >> ELSE <<0>> \o Zeros(n - 1)

Min(a, b) == IF a < b THEN a ELSE b

\* data[k]
At(buf, k) == IF k >= 0 /\ k < Len(buf) THEN buf[k + 1] ELSE Undefined

\* data.slice(start, end): both ends clamped to the length, a NaN end is 0
Slice(buf, start, end) ==
    LET e == IF end = NaN THEN 0 ELSE Min(end, Len(buf))
        s == Min(start, Len(buf))
    IN  IF e <= s THEN << >> ELSE SubSeq(buf, s + 1, e)

\* a read of width bytes at off stays inside the buffer
InRange(buf, off, width) == off + width <= Len(buf)

\* data.readUInt32LE(off), for InRange(buf, off, 4)
readUInt32LE(buf, off) ==
    [ hi |-> buf[off + 4] * 256 + buf[off + 3],
      lo |-> buf[off + 2] * 256 + buf[off + 1] ]

\* the number a 32-bit field stands for
Num(u) == u.hi * 65536 + u.lo

RECURSIVE Horner(_, _, _, _)
\* acc * 256^n + the little-endian number of the n bytes at off (0-based)
Horner(buf, off, n, acc) ==
    IF n = 0 THEN acc
    ELSE Horner(buf, off, n - 1, acc * 256 + buf[off + n])

SignedTop(b) == IF b >= 128 THEN b - 256 ELSE b

\* data.readInt32LE(off), for InRange(buf, off, 4)
readInt32LE(buf, off) == Horner(buf, off, 3, SignedTop(buf[off + 4]))

\* readBigInt64LE(data, off), for InRange(buf, off, 8)
readBigInt64LE(buf, off) == Horner(buf, off, 7, SignedTop(buf[off + 8]))

\* readBigUInt64LE(data, off), for InRange(buf, off, 8)
readBigUInt64LE(buf, off) == Horner(buf, off, 7, buf[off + 8])

RECURSIVE Pow10(_)
Pow10(n) == IF n <= 0 THEN 1 ELSE 10 * Pow10(n - 1)

Abs(x) == IF x < 0 THEN 0 - x ELSE x

RECURSIVE Gcd(_, _)
Gcd(a, b) == IF b = 0 THEN a ELSE Gcd(b, a % b)

\* Number(mantissa) * 10 ** exponent, as a fraction in lowest terms
Scaled(mantissa, exponent) ==
    IF exponent >= 0
    THEN [ num |-> mantissa * Pow10(exponent), den |-> 1 ]
    ELSE LET d == Pow10(0 - exponent)
             g == Gcd(d, Abs(mantissa))
         IN  [ num |-> mantissa \div g, den |-> d \div g ]

\* buf.toString(): utf8, one character code per ASCII byte, U+FFFD for a
\* byte that no utf8 sequence holds
toString(buf) ==
    [ k \in 1..Len(buf) |-> IF buf[k] < 128 THEN buf[k] ELSE 65533 ]

----------------------------------------------------------------------------
(* Constants of the format *)

Magic == [ hi |-> 41394, lo |-> 50132 ]       \* 0xa1b2 c3d4
Version1 == [ hi |-> 0, lo |-> 1 ]
Version == Version1
PriceStatus == << "Unknown", "Trading", "Halted", "Auction" >>
CorpAction == << "NoCorpAct" >>

empty32Buffer == Zeros(32)

\* new PublicKey(bytes): the big-endian number of the bytes, held as its
\* 32-byte form (at most 32 bytes are ever passed)
PublicKey(bytes) == Zeros(32 - Len(bytes)) \o bytes

\* a variant that looks at the first byte alone
PKorNullFirstByte(bytes) ==
    IF Len(bytes) > 0 /\ bytes[1] = 0 THEN Null ELSE PublicKey(bytes)

PKorNull(bytes) == IF bytes = empty32Buffer THEN Null ELSE PublicKey(bytes)

----------------------------------------------------------------------------
(* JavaScript arithmetic on the running offset of parseProductData *)

\* if (v): 0, undefined and NaN are falsy
Truthy(v) == v # 0 /\ v # Undefined /\ v # NaN

\* a + b on numbers, one of which may be undefined or NaN
Plus(a, b) ==
    IF a = NaN \/ a = Undefined \/ b = NaN \/ b = Undefined THEN NaN ELSE a + b

\* a < b on numbers: false as soon as one side is NaN
LessThan(a, b) == a # NaN /\ b # NaN /\ a < b

\* product[key] = value
Put(m, key, value) ==
    [ k \in DOMAIN m \cup {key} |-> IF k = key THEN value ELSE m[k] ]

EmptyProduct == [ k \in {} |-> << >> ]

NoStep == [ op |-> "none", from |-> 0, to |-> 0, keyLength |-> 0,
            valueLength |-> 0, added |-> 0, maxRead |-> Undefined ]

----------------------------------------------------------------------------
(* parsePriceInfo *)

\* one of the five reads of parsePriceInfo leaves the 32-byte block
parsePriceInfoThrows(d) ==
    \E r \in { <<0, 8>>, <<8, 8>>, <<16, 4>>, <<20, 4>>, <<24, 8>> } :
        ~ InRange(d, r[1], r[2])

\* a variant that scales the confidence from the price mantissa
parsePriceInfoSameMantissa(d, exponent) ==
    LET priceComponent == readBigInt64LE(d, 0)
        confidenceComponent == readBigUInt64LE(d, 8)
    IN  [ priceComponent |-> priceComponent,
          price |-> Scaled(priceComponent, exponent),
          confidenceComponent |-> confidenceComponent,
          confidence |-> Scaled(priceComponent, exponent),
          status |-> readUInt32LE(d, 16),
          corporateAction |-> readUInt32LE(d, 20),
          publishSlot |-> readBigUInt64LE(d, 24) ]

parsePriceInfo(d, exponent) ==
    LET priceComponent == readBigInt64LE(d, 0)
        confidenceComponent == readBigUInt64LE(d, 8)
    IN  [ priceComponent |-> priceComponent,
          price |-> Scaled(priceComponent, exponent),
          confidenceComponent |-> confidenceComponent,
          confidence |-> Scaled(confidenceComponent, exponent),
          status |-> readUInt32LE(d, 16),
          corporateAction |-> readUInt32LE(d, 20),
          publishSlot |-> readBigUInt64LE(d, 24) ]

----------------------------------------------------------------------------
(* parseMappingData *)

ParseMappingData ==
    /\ pc = "call" /\ fn = "mapping"
    /\ IF \E off \in {0, 4, 8, 12, 16} : ~ InRange(data, off, 4)
       THEN /\ pc' = "threw"
            /\ UNCHANGED << offset, i, rec >>
       ELSE /\ rec' = [ magic |-> readUInt32LE(data, 0),
                        version |-> readUInt32LE(data, 4),
                        type |-> readUInt32LE(data, 8),
                        size |-> readUInt32LE(data, 12),
                        numProducts |-> readUInt32LE(data, 16),
                        nextMappingAccount |-> PKorNull(Slice(data, 24, 56)) ]
            /\ offset' = 56
            /\ i' = 0
            /\ pc' = "loop"
    /\ UNCHANGED << fn, data, shouldContinue, productAccountKeys, product,
                    priceComponents, step >>

MappingLoop ==
    /\ pc = "loop" /\ fn = "mapping"
    /\ i < Num(rec.numProducts)
    /\ productAccountKeys' =
           Append(productAccountKeys, PublicKey(Slice(data, offset, offset + 32)))
    /\ offset' = offset + 32
    /\ i' = i + 1
    /\ step' = [ NoStep EXCEPT !.op = "mapping", !.from = offset,
                               !.to = offset + 32, !.added = 1 ]
    /\ UNCHANGED << fn, data, pc, shouldContinue, rec, product, priceComponents >>

MappingReturn ==
    /\ pc = "loop" /\ fn = "mapping"
    /\ ~ (i < Num(rec.numProducts))
    /\ pc' = "returned"
    /\ UNCHANGED << fn, data, offset, i, shouldContinue, rec,
                    productAccountKeys, product, priceComponents, step >>

----------------------------------------------------------------------------
(* parseProductData *)

ParseProductData ==
    /\ pc = "call" /\ fn = "product"
    /\ IF \E off \in {0, 4, 8, 12} : ~ InRange(data, off, 4)
       THEN /\ pc' = "threw"
            /\ UNCHANGED << offset, rec >>
       ELSE /\ rec' = [ magic |-> readUInt32LE(data, 0),
                        version |-> readUInt32LE(data, 4),
                        type |-> readUInt32LE(data, 8),
                        size |-> readUInt32LE(data, 12),
                        priceAccountKey |-> PublicKey(Slice(data, 16, 48)) ]
            /\ offset' = 48
            /\ pc' = "loop"
    /\ UNCHANGED << fn, data, i, shouldContinue, productAccountKeys, product,
                    priceComponents, step >>

\* the highest index among from..to-1 that the buffer holds
LastHeld(buf, from, to) ==
    IF to = NaN \/ Min(to, Len(buf)) <= from THEN Undefined
    ELSE Min(to, Len(buf)) - 1

Max(a, b) == IF a < b THEN b ELSE a

ProductLoop ==
    /\ pc = "loop" /\ fn = "product"
    /\ LessThan(offset, Num(rec.size))
    /\ LET keyLength == At(data, offset)
           idx1 == offset + 1
       IN  IF Truthy(keyLength)
           THEN LET key == toString(Slice(data, idx1, idx1 + keyLength))
                    idx2 == idx1 + keyLength
                    valueLength == At(data, idx2)
                    idx3 == idx2 + 1
                    value == toString(Slice(data, idx3, Plus(idx3, valueLength)))
                    idx4 == Plus(idx3, valueLength)
                IN  /\ product' = Put(product, key, value)
                    /\ offset' = idx4
                    /\ step' = [ op |-> "product", from |-> offset, to |-> idx4,
                                 keyLength |-> keyLength,
                                 valueLength |-> valueLength,
                                 added |-> 1,
                                 maxRead |->
                                     Max(LastHeld(data, offset, idx3),
                                         LastHeld(data, idx3, idx4)) ]
           ELSE /\ offset' = idx1
                /\ step' = [ op |-> "product", from |-> offset, to |-> idx1,
                             keyLength |-> keyLength,
                             valueLength |-> Undefined,
                             added |-> 0,
                             maxRead |-> LastHeld(data, offset, idx1) ]
                /\ UNCHANGED product
    /\ UNCHANGED << fn, data, pc, i, shouldContinue, rec, productAccountKeys,
                    priceComponents >>

ProductReturn ==
    /\ pc = "loop" /\ fn = "product"
    /\ ~ LessThan(offset, Num(rec.size))
    /\ pc' = "returned"
    /\ UNCHANGED << fn, data, offset, i, shouldContinue, rec,
                    productAccountKeys, product, priceComponents, step >>

----------------------------------------------------------------------------
(* parsePriceData *)

ParsePriceData ==
    /\ pc = "call" /\ fn = "price"
    /\ IF \/ \E off \in {0, 4, 8, 12, 16, 20, 24} : ~ InRange(data, off, 4)
          \/ \E off \in {32, 40} : ~ InRange(data, off, 8)
          \/ parsePriceInfoThrows(Slice(data, 144, 176))
       THEN /\ pc' = "threw"
            /\ UNCHANGED << offset, shouldContinue, rec >>
       ELSE LET exponent == readInt32LE(data, 20)
            IN  /\ rec' = [ magic |-> readUInt32LE(data, 0),
                            version |-> readUInt32LE(data, 4),
                            type |-> readUInt32LE(data, 8),
                            size |-> readUInt32LE(data, 12),
                            priceType |-> readUInt32LE(data, 16),
                            exponent |-> exponent,
                            numComponentPrices |-> readUInt32LE(data, 24),
                            currentSlot |-> readBigUInt64LE(data, 32),
                            validSlot |-> readBigUInt64LE(data, 40),
                            productAccountKey |-> PublicKey(Slice(data, 48, 80)),
                            nextPriceAccountKey |-> PKorNull(Slice(data, 80, 112)),
                            aggregatePriceUpdaterAccountKey |->
                                PublicKey(Slice(data, 112, 144)),
                            aggregatePriceInfo |->
                                parsePriceInfo(Slice(data, 144, 176), exponent) ]
                /\ offset' = 176
                /\ shouldContinue' = TRUE
                /\ pc' = "loop"
    /\ UNCHANGED << fn, data, i, productAccountKeys, product, priceComponents,
                    step >>

\* a variant that also stops at the declared component count
PriceLoopCondDeclared ==
    /\ offset < Len(data) /\ shouldContinue
    /\ Len(priceComponents) < Num(rec.numComponentPrices)

\* while (offset < data.length && shouldContinue)
PriceLoopCond == offset < Len(data) /\ shouldContinue

PriceLoop ==
    /\ pc = "loop" /\ fn = "price"
    /\ PriceLoopCond
    /\ LET publisher == PKorNull(Slice(data, offset, offset + 32))
           aggregateBytes == Slice(data, offset + 32, offset + 64)
           latestBytes == Slice(data, offset + 64, offset + 96)
       IN  IF publisher # Null
           THEN IF parsePriceInfoThrows(aggregateBytes)
                THEN /\ pc' = "threw"
                     /\ offset' = offset + 32
                     /\ step' = [ NoStep EXCEPT !.op = "price", !.from = offset,
                                                !.to = offset + 32 ]
                     /\ UNCHANGED << shouldContinue, priceComponents >>
                ELSE IF parsePriceInfoThrows(latestBytes)
                THEN /\ pc' = "threw"
                     /\ offset' = offset + 64
                     /\ step' = [ NoStep EXCEPT !.op = "price", !.from = offset,
                                                !.to = offset + 64 ]
                     /\ UNCHANGED << shouldContinue, priceComponents >>
                ELSE /\ priceComponents' = Append(priceComponents,
                            [ publisher |-> publisher,
                              aggregate |-> parsePriceInfo(aggregateBytes, rec.exponent),
                              latest |-> parsePriceInfo(latestBytes, rec.exponent) ])
                     /\ offset' = offset + 96
                     /\ step' = [ NoStep EXCEPT !.op = "price", !.from = offset,
                                                !.to = offset + 96, !.added = 1 ]
                     /\ UNCHANGED << pc, shouldContinue >>
           ELSE /\ shouldContinue' = FALSE
                /\ offset' = offset + 32
                /\ step' = [ NoStep EXCEPT !.op = "price", !.from = offset,
                                           !.to = offset + 32 ]
                /\ UNCHANGED << pc, priceComponents >>
    /\ UNCHANGED << fn, data, i, rec, productAccountKeys, product >>

PriceReturn ==
    /\ pc = "loop" /\ fn = "price"
    /\ ~ PriceLoopCond
    /\ pc' = "returned"
    /\ UNCHANGED << fn, data, offset, i, shouldContinue, rec,
                    productAccountKeys, product, priceComponents, step >>

----------------------------------------------------------------------------
(* The input buffers *)

RECURSIVE Bytes(_, _)
\* the n low bytes of v in two's complement, low byte first
Bytes(v, n) == IF n = 0 THEN << >> ELSE <<v % 256>> \o Bytes(v \div 256, n - 1)

RECURSIVE Flatten(_)
Flatten(ss) == IF ss = << >> THEN << >> ELSE Head(ss) \o Flatten(Tail(ss))

SeqsUpTo(S, n) == UNION { [1..k -> S] : k \in 0..n }

Take(buf, n) == SubSeq(buf, 1, Min(n, Len(buf)))

MagicBytes == << 212, 195, 178, 161 >>
OtherMagicBytes == << 212, 195, 178, 160 >>

\* <<magic bytes, version>>
HeadSet == { <<MagicBytes, 1>>, <<MagicBytes, 2>>, <<OtherMagicBytes, 1>> }

Header(h, type, size) == h[1] \o Bytes(h[2], 4) \o Bytes(type, 4) \o Bytes(size, 4)

KeyA == <<7>> \o Zeros(31)
KeyLow == Zeros(31) \o <<1>>

MappingFull(h, count, next, keys) ==
    Header(h, 1, 56 + 32 * count) \o Bytes(count, 4) \o Zeros(4) \o next
        \o Flatten(keys)

MappingLengths(k) ==
    {0, 18, 20, 30, 56} \cup { 56 + 32 * j - 12 : j \in 1..k }
        \cup { 56 + 32 * j : j \in 1..k }

MappingInputs ==
    UNION { { Take(MappingFull(h, count, next, keys), n) : n \in MappingLengths(Len(keys)) } :
            h \in HeadSet, count \in 0..MaxProducts, next \in {Zeros(32), KeyLow},
            keys \in SeqsUpTo({KeyA, KeyLow, Zeros(32)}, MaxProducts) }

Pair(k, v) == <<Len(k)>> \o k \o <<Len(v)>> \o v

ItemSet == { <<0>>, Pair(<<97>>, <<120>>), Pair(<<98, 99>>, << >>),
             Pair(<<97>>, <<121, 255>>) }

ProductFull(h, size, items) ==
    Header(h, 2, size) \o KeyA \o Flatten(items) \o Zeros(2)

ProductInputs ==
    UNION { LET end == 48 + Len(Flatten(items))
            IN  { Take(ProductFull(h, size, items), n) :
                      size \in {48, end - 1, end, end + 3},
                      n \in {10, 40, end - 2, end - 1, end, end + 2} } :
            h \in HeadSet, items \in SeqsUpTo(ItemSet, MaxItems) }

Info(p, c, status, corp, slot) ==
    Bytes(p, 8) \o Bytes(c, 8) \o Bytes(status, 4) \o Bytes(corp, 4) \o Bytes(slot, 8)

Info1 == Info(123456, 5, 1, 0, 9)
Info2 == Info(0 - 2, 70, 7, 2, 3)

BlockSet == { Zeros(32) \o Info1 \o Info2,
              KeyA \o Info1 \o Info2,
              KeyLow \o Info2 \o Info1 }

\* <<head, next price account, aggregate Price-Info>>
PriceHeadSet == { << <<MagicBytes, 1>>, Zeros(32), Info1 >>,
                  << <<MagicBytes, 2>>, KeyLow, Info2 >>,
                  << <<OtherMagicBytes, 1>>, KeyA, Info1 >> }

PriceFull(t, exponent, count, blocks) ==
    Header(t[1], 3, 176 + 96 * count) \o Bytes(1, 4) \o Bytes(exponent, 4)
        \o Bytes(count, 4) \o Zeros(4) \o Bytes(11, 8) \o Bytes(10, 8)
        \o KeyA \o t[2] \o KeyLow \o t[3] \o Flatten(blocks)

PriceLengths(k) ==
    {20, 100, 160, 176}
        \cup UNION { { 176 + 96 * j - 80, 176 + 96 * j - 64, 176 + 96 * j - 20,
                       176 + 96 * j } : j \in 1..k }

PriceInputs ==
    UNION { { Take(PriceFull(t, exponent, count, blocks), n) :
                  n \in PriceLengths(Len(blocks)) } :
            t \in PriceHeadSet, exponent \in {0 - 2, 0, 1}, count \in {0, 2},
            blocks \in SeqsUpTo(BlockSet, MaxBlocks) }

----------------------------------------------------------------------------
(* The state machine *)

Init ==
    /\ fn \in {"mapping", "product", "price"}
    /\ data \in CASE fn = "mapping" -> MappingInputs
                  [] fn = "product" -> ProductInputs
                  [] fn = "price" -> PriceInputs
    /\ pc = "call"
    /\ offset = 0
    /\ i = 0
    /\ shouldContinue = TRUE
    /\ rec = << >>
    /\ productAccountKeys = << >>
    /\ product = EmptyProduct
    /\ priceComponents = << >>
    /\ step = NoStep

Next ==
    \/ ParseMappingData
    \/ MappingLoop
    \/ MappingReturn
    \/ ParseProductData
    \/ ProductLoop
    \/ ProductReturn
    \/ ParsePriceData
    \/ PriceLoop
    \/ PriceReturn

Spec == Init /\ [][Next]_vars

----------------------------------------------------------------------------
(* What the claims speak of, read from the buffer itself *)

\* the n bytes at off (0-based), for InRange(buf, off, n)
Span(buf, off, n) == SubSeq(buf, off + 1, off + n)

AllZero(buf, off, n) == \A k \in 1..n : buf[off + k] = 0

\* a 32-bit field back as its four bytes
LimbBytes(u) == Bytes(u.lo, 2) \o Bytes(u.hi, 2)

\* a decoded Price back as the 32 bytes of its block
InfoBytes(p) ==
    Bytes(p.priceComponent, 8) \o Bytes(p.confidenceComponent, 8)
        \o LimbBytes(p.status) \o LimbBytes(p.corporateAction)
        \o Bytes(p.publishSlot, 8)

\* a decoded component back as the 96 bytes of its block
ComponentBytes(c) == c.publisher \o InfoBytes(c.aggregate) \o InfoBytes(c.latest)

\* the buffer with the declared component count (offset 24) set to zero
WithoutCount(buf) ==
    [ k \in 1..Len(buf) |-> IF k \in 25..28 THEN 0 ELSE buf[k] ]

\* block j (from 0) ends the component list: the buffer is used up, or the
\* block's 32-byte publisher span is all zero
ListEnd(buf, j) ==
    \/ 176 + 96 * j >= Len(buf)
    \/ InRange(buf, 176 + 96 * j, 32) /\ AllZero(buf, 176 + 96 * j, 32)

\* the number of blocks before the first one that ends the list
ListLength(buf) ==
    CHOOSE n \in 0..(Len(buf) \div 96 + 1) :
        ListEnd(buf, n) /\ \A j \in 0..(n - 1) : ~ ListEnd(buf, j)

\* C1: the priceComponents of a returned price record are exactly the 96-byte
\* blocks from offset 176 on that precede the first block with an all-zero
\* publisher span, in buffer order; what follows that block is ignored, and
\* the declared component count at offset 24 plays no part.
C1_ComponentsUpToSentinel ==
    (fn = "price" /\ pc = "returned") =>
        LET n == ListLength(WithoutCount(data))
        IN  /\ Len(priceComponents) = n
            /\ InRange(data, 176, 96 * n)
            /\ Flatten([ j \in 1..n |-> ComponentBytes(priceComponents[j]) ])
                   = Span(data, 176, 96 * n)

\* one component, then the sentinel, then bytes that are ignored, under a
\* declared count that is not 1
C1_Witness ==
    /\ fn = "price" /\ pc = "returned"
    /\ Len(priceComponents) = 1
    /\ ~ shouldContinue
    /\ Num(rec.numComponentPrices) # 1
    /\ Len(data) > 176 + 96 + 32

\* the identifier a 32-byte span stands for: absent when every byte is zero
IdentifierOf(buf, off) ==
    IF AllZero(buf, off, 32) THEN Null ELSE Span(buf, off, 32)

\* C7: PKorNull on a 32-byte span is absent exactly when all 32 bytes are
\* zero and otherwise carries those 32 bytes, at nextMappingAccount (offset
\* 24), at nextPriceAccountKey (offset 80) and at every component publisher.
C7_NullableIdentifier ==
    /\ (fn = "mapping" /\ pc = "returned" /\ InRange(data, 24, 32)) =>
           rec.nextMappingAccount = IdentifierOf(data, 24)
    /\ (fn = "price" /\ pc \in {"loop", "returned"}) =>
           /\ rec.nextPriceAccountKey = IdentifierOf(data, 80)
           /\ \A j \in 1..Len(priceComponents) :
                  /\ priceComponents[j].publisher # Null
                  /\ priceComponents[j].publisher
                         = IdentifierOf(data, 176 + 96 * (j - 1))
           /\ ~ shouldContinue =>
                  /\ InRange(data, step.from, 32)
                  /\ IdentifierOf(data, step.from) = Null

\* a present next-price-account key whose first bytes are zero, a present
\* publisher, and a list ended by an absent publisher
C7_Witness ==
    /\ fn = "price" /\ pc = "returned"
    /\ rec.nextPriceAccountKey # Null
    /\ data[81] = 0
    /\ Len(priceComponents) >= 1
    /\ ~ shouldContinue

\* x is m * 10^e
IsTimesPow10(x, m, e) ==
    IF e >= 0
    THEN x.den = 1 /\ x.num = m * Pow10(e)
    ELSE x.den > 0 /\ x.num * Pow10(0 - e) = m * x.den

\* p is the Price of the block at off under exponent e
IsPriceOf(p, buf, off, e) ==
    /\ Bytes(p.priceComponent, 8) = Span(buf, off, 8)
    /\ Bytes(p.confidenceComponent, 8) = Span(buf, off + 8, 8)
    /\ p.confidenceComponent >= 0
    /\ IsTimesPow10(p.price, p.priceComponent, e)
    /\ IsTimesPow10(p.confidence, p.confidenceComponent, e)

\* C9: in a returned price record the aggregate Price (offset 144) and the
\* aggregate and latest Price of every component have price = priceComponent
\* * 10^exponent and confidence = confidenceComponent * 10^exponent, with the
\* signed mantissa of bytes 0-7, the unsigned one of bytes 8-15, and the one
\* signed exponent of offset 20.
C9_ScaledByExponent ==
    (fn = "price" /\ pc = "returned") =>
        LET e == rec.exponent
        IN  /\ Bytes(e, 4) = Span(data, 20, 4)
            /\ IsPriceOf(rec.aggregatePriceInfo, data, 144, e)
            /\ \A j \in 1..Len(priceComponents) :
                   /\ IsPriceOf(priceComponents[j].aggregate, data,
                                176 + 96 * (j - 1) + 32, e)
                   /\ IsPriceOf(priceComponents[j].latest, data,
                                176 + 96 * (j - 1) + 64, e)

\* mantissa 123456 under exponent -2 is 1234.56 = 30864 / 25, beside a
\* component with a negative mantissa
C9_Witness ==
    /\ fn = "price" /\ pc = "returned"
    /\ rec.exponent = 0 - 2
    /\ rec.aggregatePriceInfo.priceComponent = 123456
    /\ rec.aggregatePriceInfo.price = [ num |-> 30864, den |-> 25 ]
    /\ Len(priceComponents) >= 1
    /\ priceComponents[1].aggregate.priceComponent < 0

----------------------------------------------------------------------------
(* Claims that the decoders do not keep *)

\* C2: the productAccountKeys of a returned mapping record has as many
\* entries as the count at offset 16 says, whatever the buffer's length,
\* and its i-th entry is the 32-byte span at offset 56 + 32 * i.
C2_KeysAreSpans ==
    (fn = "mapping" /\ pc = "returned") =>
        /\ Len(productAccountKeys) = Num(rec.numProducts)
        /\ \A j \in 1..Len(productAccountKeys) :
               /\ InRange(data, 56 + 32 * (j - 1), 32)
               /\ productAccountKeys[j] = Span(data, 56 + 32 * (j - 1), 32)

\* the half of C2 that holds of every buffer: the length is the count
C2_LengthIsCount ==
    (fn = "mapping" /\ pc = "returned") =>
        Len(productAccountKeys) = Num(rec.numProducts)

\* C3: an iteration of the metadata loop either meets a key length of 0,
\* advances by 1 and adds nothing, or meets a key length keyLen, advances by
\* 1 + keyLen + 1 + valueLen and adds one entry.  (A key length read past
\* the buffer's end is counted with the key length of 0.)
C3_IterationAdvance ==
    step.op = "product" =>
        IF Truthy(step.keyLength)
        THEN /\ step.valueLength # Undefined
             /\ step.to = step.from + 1 + step.keyLength + 1 + step.valueLength
             /\ step.added = 1
        ELSE /\ step.to = step.from + 1
             /\ step.added = 0

\* C4: the metadata loop stops at or before the used-size: the running
\* offset never exceeds it and no byte at or beyond it is read.  (Stated for
\* a used-size that holds the 48 fixed bytes, and for a running offset that
\* is a number.)
C4_StopsAtUsedSize ==
    (fn = "product" /\ pc \in {"loop", "returned"} /\ Num(rec.size) >= 48) =>
        /\ offset # NaN => offset <= Num(rec.size)
        /\ (step.op = "product" /\ step.maxRead # Undefined) =>
               step.maxRead < Num(rec.size)

\* C5: a record is returned only when the buffer holds every span the
\* decoder reads.
C5_AllOrNothing ==
    pc = "returned" =>
        CASE fn = "mapping" ->
                 /\ InRange(data, 24, 32)
                 /\ \A j \in 1..Num(rec.numProducts) :
                        InRange(data, 56 + 32 * (j - 1), 32)
          [] fn = "product" -> InRange(data, 16, 32)
          [] fn = "price" ->
                 /\ InRange(data, 144, 32)
                 /\ \A j \in 1..Len(priceComponents) :
                        InRange(data, 176 + 96 * (j - 1), 96)

\* C6: no decoder goes past its header, nor returns a record, unless the
\* magic is Magic and the version is Version.
C6_MagicAndVersionChecked ==
    pc \in {"loop", "returned"} => rec.magic = Magic /\ rec.version = Version

\* an ordinal that indexes the table
InTable(u, table) == u.hi = 0 /\ u.lo < Len(table)

KnownOrdinals(p) ==
    InTable(p.status, PriceStatus) /\ InTable(p.corporateAction, CorpAction)

\* C8: no returned Price carries a status outside PriceStatus or a corporate
\* action outside CorpAction as a raw ordinal.  (The decoded fields are the
\* raw 32-bit values; the code has no marker to put in their place.)
C8_OrdinalsInTable ==
    (fn = "price" /\ pc = "returned") =>
        /\ KnownOrdinals(rec.aggregatePriceInfo)
        /\ \A j \in 1..Len(priceComponents) :
               /\ KnownOrdinals(priceComponents[j].aggregate)
               /\ KnownOrdinals(priceComponents[j].latest)

\* C10: on every loop iteration the running offset strictly increases: by 32
\* in the mapping loop, by at least 1 in the metadata loop, by 32 or 96 in
\* the component loop.
C10_OffsetIncreases ==
    [][ (pc = "loop" /\ pc' = "loop") =>
            CASE fn = "mapping" -> offset' = offset + 32
              [] fn = "product" -> offset' # NaN /\ offset' >= offset + 1
              [] fn = "price" -> offset' \in {offset + 32, offset + 96} ]_vars

\* the half of C10 that holds: every decoder ends, by a return or a throw
FairSpec == Spec /\ WF_vars(Next)

C10_Terminates == <>(pc \in {"returned", "threw"})

====
